---- MODULE Spec2Model ----
(***************************************************************************)
(* A model of src/app.py of kinjal-mitra/Text_to_SQL: the Flask handler    *)
(* POST /query, the extraction of the SQL statement from the LLM's answer  *)
(* (get_sql_query_from_question) and the classification of a query result  *)
(* (parse_results).                                                        *)
(*                                                                         *)
(* Python strings are sequences of one-character strings.  Python values   *)
(* are records of one shape, [k, n, s, e]: the kind, the integer of an     *)
(* int, the characters of a str, the elements of a tuple or a list.        *)
(***************************************************************************)
EXTENDS Integers, Sequences, FiniteSets, TLC

VARIABLES
    p_src,      \* parse_results: the value the driver holds (NoSource: a text only)
    p_raw,      \* parse_results: its argument, that value or its text
    p_done,     \* parse_results: whether the call has returned or raised
    p_out,      \* parse_results: what it returned, or the exception
    e_resp,     \* get_sql_query_from_question: what sql_chain.invoke returned
    e_done,     \* get_sql_query_from_question: whether it has returned
    e_out,      \* get_sql_query_from_question: the string it returned
    pc,         \* query(): the handler's position
    body,       \* query(): what the request carries
    trace,      \* query(): the stages invoked so far, in order
    llm_text,   \* query(): the text the chain returned
    sql_query,  \* query(): the local sql_query
    executed,   \* query(): the arguments db.run was called with, in order
    results,    \* query(): the local results
    parsed,     \* query(): the local parsed_results
    raised,     \* query(): the stage that raised and str(e), or NoExc
    response    \* query(): the status and JSON body returned, or NoResponse

vars == <<p_src, p_raw, p_done, p_out, e_resp, e_done, e_out, pc, body, trace,
          llm_text, sql_query, executed, results, parsed, raised, response>>

(***************************************************************************)
(* Bounds of the model.                                                    *)
(***************************************************************************)
MaxRows == 2
MaxCols == 2
MaxGarbage == 3
MaxTokens == 6

(***************************************************************************)
(* Python values.                                                          *)
(***************************************************************************)
None == [k |-> "none", n |-> 0, s |-> <<>>, e |-> <<>>]
IntV(i) == [k |-> "int", n |-> i, s |-> <<>>, e |-> <<>>]
StrV(cs) == [k |-> "str", n |-> 0, s |-> cs, e |-> <<>>]
TupleV(es) == [k |-> "tuple", n |-> 0, s |-> <<>>, e |-> es]
ListV(es) == [k |-> "list", n |-> 0, s |-> <<>>, e |-> es]

\* bool(v) for the kinds above: None, 0, '', () and [] are false.
Truthy(v) ==
    CASE v.k = "none" -> FALSE
      [] v.k = "int" -> v.n # 0
      [] v.k = "str" -> Len(v.s) > 0
      [] OTHER -> Len(v.e) > 0

\* Whether len(v) is defined; on an int or None it raises TypeError.
Sized(v) == v.k \in {"str", "tuple", "list"}

PyLen(v) == IF v.k = "str" THEN Len(v.s) ELSE Len(v.e)

\* v[0] of a sized, non-empty value: a str's first character is a str.
GetItem0(v) == IF v.k = "str" THEN StrV(<<v.s[1]>>) ELSE v.e[1]

(***************************************************************************)
(* str.strip, str.startswith, str.endswith.                                *)
(***************************************************************************)
IsSpace(c) == c \in {" ", "\n"}

RECURSIVE LStrip(_)
LStrip(s) ==
    IF s # <<>> /\ IsSpace(Head(s)) THEN LStrip(Tail(s)) ELSE s

RECURSIVE RStrip(_)
RStrip(s) ==
    IF s # <<>> /\ IsSpace(s[Len(s)])
    THEN RStrip(SubSeq(s, 1, Len(s) - 1))
    ELSE s

Strip(s) == RStrip(LStrip(s))

StartsWith(s, c) == Len(s) > 0 /\ s[1] = c

EndsWith(s, c) == Len(s) > 0 /\ s[Len(s)] = c

(***************************************************************************)
(* ast.literal_eval on the characters [ ] ( ) , ' space, the digits and    *)
(* the letter x: integers, quoted strings (single and triple quoted,       *)
(* adjacent literals concatenated), lists, tuples, parenthesised           *)
(* expressions and the bare tuple "a, b" of the top level.  Anything else  *)
(* (a name, a call, a subscript, an unclosed bracket or quote) raises, and *)
(* the result is then [ok |-> FALSE].                                      *)
(***************************************************************************)
Digits == {"0", "1", "2", "3", "4", "5", "6", "7", "8", "9"}

DigitVal(c) ==
    CASE c = "0" -> 0 [] c = "1" -> 1 [] c = "2" -> 2 [] c = "3" -> 3
      [] c = "4" -> 4 [] c = "5" -> 5 [] c = "6" -> 6 [] c = "7" -> 7
      [] c = "8" -> 8 [] c = "9" -> 9

PFail == [ok |-> FALSE, val |-> None, pos |-> 0]

POk(v, p) == [ok |-> TRUE, val |-> v, pos |-> p]

\* The first position at or after i that holds no blank (Len(s) + 1: none).
RECURSIVE SkipWs(_, _)
SkipWs(s, i) ==
    IF i <= Len(s) /\ s[i] = " " THEN SkipWs(s, i + 1) ELSE i

\* The first position at or after i that holds no digit.
RECURSIVE DigitsEnd(_, _)
DigitsEnd(s, i) ==
    IF i <= Len(s) /\ s[i] \in Digits THEN DigitsEnd(s, i + 1) ELSE i

RECURSIVE NumVal(_)
NumVal(ds) ==
    IF ds = <<>> THEN 0
    ELSE 10 * NumVal(SubSeq(ds, 1, Len(ds) - 1)) + DigitVal(ds[Len(ds)])

\* A decimal integer at i; a leading zero before more digits is a SyntaxError.
ParseNumber(s, i) ==
    LET j == DigitsEnd(s, i) IN
    IF s[i] = "0" /\ j > i + 1 /\ \E p \in i..(j - 1) : s[p] # "0"
    THEN PFail
    ELSE POk(IntV(NumVal(SubSeq(s, i, j - 1))), j)

IsQuote3(s, i) ==
    i + 2 <= Len(s) /\ s[i] = "'" /\ s[i + 1] = "'" /\ s[i + 2] = "'"

\* One string literal whose opening quote is at i.
ParseOneString(s, i) ==
    IF IsQuote3(s, i)
    THEN LET ends == {p \in (i + 3)..Len(s) : IsQuote3(s, p)} IN
         IF ends = {} THEN PFail
         ELSE LET p == CHOOSE q \in ends : \A r \in ends : q <= r IN
              POk(StrV(SubSeq(s, i + 3, p - 1)), p + 3)
    ELSE LET ends == {p \in (i + 1)..Len(s) : s[p] = "'"} IN
         IF ends = {} THEN PFail
         ELSE LET p == CHOOSE q \in ends : \A r \in ends : q <= r IN
              POk(StrV(SubSeq(s, i + 1, p - 1)), p + 1)

\* Adjacent string literals, blanks between them allowed, are one string.
RECURSIVE ParseStrings(_, _, _)
ParseStrings(s, i, acc) ==
    LET r == ParseOneString(s, i) IN
    IF ~r.ok THEN PFail
    ELSE LET all == acc \o r.val.s
             j == SkipWs(s, r.pos)
         IN  IF j <= Len(s) /\ s[j] = "'"
             THEN ParseStrings(s, j, all)
             ELSE POk(StrV(all), r.pos)

\* Whether position j closes the display opened with the closer's partner;
\* the closer "" is the end of the input.
AtCloser(s, j, closer) ==
    IF closer = "" THEN j > Len(s) ELSE j <= Len(s) /\ s[j] = closer

RECURSIVE ParseExpr(_, _)
RECURSIVE ParseItems(_, _, _, _, _)

\* The elements up to the closer: [ok, items, trailing (a comma before the
\* closer), pos (after the closer)].
ParseItems(s, i, closer, acc, afterComma) ==
    LET j == SkipWs(s, i)
        bad == [ok |-> FALSE, items |-> <<>>, trailing |-> FALSE, pos |-> 0]
    IN  IF AtCloser(s, j, closer)
        THEN [ok |-> TRUE, items |-> acc, trailing |-> afterComma, pos |-> j + 1]
        ELSE IF j > Len(s) THEN bad
        ELSE LET r == ParseExpr(s, j) IN
             IF ~r.ok THEN bad
             ELSE LET k == SkipWs(s, r.pos) IN
                  IF AtCloser(s, k, closer)
                  THEN [ok |-> TRUE, items |-> Append(acc, r.val),
                        trailing |-> FALSE, pos |-> k + 1]
                  ELSE IF k <= Len(s) /\ s[k] = ","
                  THEN ParseItems(s, k + 1, closer, Append(acc, r.val), TRUE)
                  ELSE bad

\* One expression starting at the non-blank position i.
ParseExpr(s, i) ==
    IF i > Len(s) THEN PFail
    ELSE IF s[i] \in Digits THEN ParseNumber(s, i)
    ELSE IF s[i] = "'" THEN ParseStrings(s, i, <<>>)
    ELSE IF s[i] = "["
    THEN LET r == ParseItems(s, i + 1, "]", <<>>, FALSE) IN
         IF r.ok THEN POk(ListV(r.items), r.pos) ELSE PFail
    ELSE IF s[i] = "("
    THEN LET r == ParseItems(s, i + 1, ")", <<>>, FALSE) IN
         IF ~r.ok THEN PFail
         ELSE IF Len(r.items) = 1 /\ ~r.trailing THEN POk(r.items[1], r.pos)
         ELSE POk(TupleV(r.items), r.pos)
    ELSE PFail

literal_eval(s) ==
    LET r == ParseItems(s, 1, "", <<>>, FALSE) IN
    IF ~r.ok \/ Len(r.items) = 0 THEN PFail
    ELSE IF Len(r.items) = 1 /\ ~r.trailing THEN POk(r.items[1], r.pos)
    ELSE POk(TupleV(r.items), r.pos)

(***************************************************************************)
(* parse_results.  What it returns is [exc, type, data]: exc is "" and     *)
(* type, data are the returned dict, or exc names the exception raised.    *)
(***************************************************************************)
Ret(t, d) == [exc |-> "", type |-> t, data |-> d]

Raise(x) == [exc |-> x, type |-> "", data |-> None]

AllTuples(rows) == \A i \in 1..Len(rows) : rows[i].k = "tuple"

\* ClassifyValue with the table test tried before the single-value test.
ClassifyValue_TableFirst(res) ==
    IF res.k = "list"
    THEN IF Len(res.e) = 0 THEN Ret("empty", None)
         ELSE IF AllTuples(res.e) THEN Ret("table", res)
         ELSE IF Len(res.e) = 1 /\ ~Sized(res.e[1]) THEN Raise("TypeError")
         ELSE IF Len(res.e) = 1 /\ PyLen(res.e[1]) = 1
         THEN Ret("single", GetItem0(res.e[1]))
         ELSE Ret("list", res)
    ELSE Ret("single", res)

\* Lines 85-99: the branches on a value that is not (or no longer) a str.
ClassifyValue(res) ==
    IF res.k = "list"
    THEN IF Len(res.e) = 0 THEN Ret("empty", None)
         ELSE IF Len(res.e) = 1 /\ ~Sized(res.e[1]) THEN Raise("TypeError")
         ELSE IF Len(res.e) = 1 /\ PyLen(res.e[1]) = 1
         THEN Ret("single", GetItem0(res.e[1]))
         ELSE IF AllTuples(res.e) THEN Ret("table", res)
         ELSE Ret("list", res)
    ELSE Ret("single", res)

\* parse_results without the try/except around literal_eval.
parse_results_NoExcept(res) ==
    IF ~Truthy(res) THEN Ret("empty", None)
    ELSE IF res.k = "str"
    THEN LET st == Strip(res.s) IN
         IF StartsWith(st, "[") /\ EndsWith(st, "]")
         THEN LET r == literal_eval(st) IN
              IF r.ok THEN ClassifyValue(r.val) ELSE Raise("ValueError")
         ELSE Ret("text", StrV(st))
    ELSE ClassifyValue(res)

\* Lines 65-99.
parse_results(res) ==
    IF ~Truthy(res) THEN Ret("empty", None)
    ELSE IF res.k = "str"
    THEN LET st == Strip(res.s) IN
         IF StartsWith(st, "[") /\ EndsWith(st, "]")
         THEN LET r == literal_eval(st) IN
              IF r.ok THEN ClassifyValue(r.val) ELSE Ret("text", StrV(st))
         ELSE Ret("text", StrV(st))
    ELSE ClassifyValue(res)

(***************************************************************************)
(* repr of a value: how a driver that returns text renders a result.       *)
(***************************************************************************)
ReprDigit(d) ==
    CASE d = 0 -> "0" [] d = 1 -> "1" [] d = 2 -> "2" [] d = 3 -> "3"
      [] d = 4 -> "4" [] d = 5 -> "5" [] d = 6 -> "6" [] d = 7 -> "7"
      [] d = 8 -> "8" [] d = 9 -> "9"

RECURSIVE ReprInt(_)
ReprInt(i) ==
    IF i < 10 THEN <<ReprDigit(i)>>
    ELSE Append(ReprInt(i \div 10), ReprDigit(i % 10))

RECURSIVE Repr(_)
RECURSIVE ReprJoin(_)
ReprJoin(es) ==
    IF es = <<>> THEN <<>>
    ELSE IF Len(es) = 1 THEN Repr(es[1])
    ELSE Repr(es[1]) \o <<",", " ">> \o ReprJoin(Tail(es))

Repr(v) ==
    CASE v.k = "int" -> ReprInt(v.n)
      [] v.k = "str" -> <<"'">> \o v.s \o <<"'">>
      [] v.k = "list" -> <<"[">> \o ReprJoin(v.e) \o <<"]">>
      [] v.k = "tuple" ->
            IF Len(v.e) = 1 THEN <<"(">> \o Repr(v.e[1]) \o <<",", ")">>
            ELSE <<"(">> \o ReprJoin(v.e) \o <<")">>

(***************************************************************************)
(* The raw results parse_results is given.                                 *)
(***************************************************************************)
SeqsUpTo(S, n) == UNION {[1..m -> S] : m \in 0..n}

\* The values of a column.
Cells == {IntV(1), StrV(<<"x">>)}

TupleRows == {TupleV(es) : es \in SeqsUpTo(Cells, MaxCols)}

ListRows == {ListV(<<IntV(1)>>), ListV(<<StrV(<<"x">>), IntV(1)>>)}

\* A row is a tuple or, not a tuple, a list, a bare scalar or None.
Rows == TupleRows \cup ListRows \cup Cells \cup {None}

\* The rows a text can name with the characters of ParseChars.
TextRows == Rows \ {None}

Lists == {ListV(rs) : rs \in SeqsUpTo(Rows, MaxRows)}

TextLists == {ListV(rs) : rs \in SeqsUpTo(TextRows, MaxRows)}

Pads == {<<>>, <<"\n", " ">>}

ParseChars == {"[", "]", "(", ")", ",", " ", "'", "x", "1"}

\* Every short text, parseable or not.
ShortTexts == {StrV(cs) : cs \in SeqsUpTo(ParseChars, MaxGarbage)}

\* Longer texts that are not the repr of a list.
OtherTexts ==
    {StrV(a \o cs \o b) : a \in Pads, b \in Pads,
        cs \in {<<"x", " ", "x">>, <<"[", "x", ",", " ", "x", "]">>,
                <<"[", "(", "1", ",", ")", ",", " ", "(", "1", ",", ")">>,
                <<"[", "1", "]", ",", " ", "[", "1", "]">>,
                <<"[", "(", "1", ")", "(", "1", ")", "]">>}}

Scalars == {None, IntV(0), IntV(5), TupleV(<<>>), TupleV(<<IntV(1)>>)}

\* No value behind a text: the text is all there is.
NoSource == [k |-> "nosource", n |-> 0, s |-> <<>>, e |-> <<>>]

\* What the driver holds.
Sources == Scalars \cup Lists \cup {NoSource}

\* What db.run returns for it: the value itself or, for a list, the text
\* of its repr with blanks around it.
Returned(src) ==
    IF src = NoSource THEN ShortTexts \cup OtherTexts
    ELSE {src} \cup
         (IF src \in TextLists
          THEN {StrV(a \o Repr(src) \o b) : a \in Pads, b \in Pads}
          ELSE {})

(***************************************************************************)
(* The call parse_results(p_raw).                                          *)
(***************************************************************************)
Pending == [exc |-> "", type |-> "", data |-> None]

ParseCall ==
    /\ ~p_done
    /\ p_out' = parse_results(p_raw)
    /\ p_done' = TRUE
    /\ UNCHANGED <<p_src, p_raw>>

(***************************************************************************)
(* get_sql_query_from_question, lines 55-58: the search for the pattern    *)
(* FENCE sql \s* (.*?) \s* FENCE with re.DOTALL | re.IGNORECASE, as the    *)
(* backtracking matcher runs it, and the strip of group 1.  FENCE is three *)
(* backquotes; a TLA+ string cannot hold a backquote, and Tick stands for  *)
(* it.                                                                     *)
(***************************************************************************)
Tick == "~"

Fence == <<Tick, Tick, Tick>>

Opening == Fence \o <<"s", "q", "l">>

\* re.IGNORECASE: a character's lower case.
Lower(c) ==
    CASE c = "S" -> "s" [] c = "Q" -> "q" [] c = "L" -> "l" [] OTHER -> c

\* LitAt without re.IGNORECASE.
LitAt_CaseSensitive(s, i, lit) ==
    /\ i >= 1
    /\ i + Len(lit) - 1 <= Len(s)
    /\ \A k \in 1..Len(lit) : s[i + k - 1] = lit[k]

\* Whether the literal lit matches at position i, case ignored.
LitAt(s, i, lit) ==
    /\ i >= 1
    /\ i + Len(lit) - 1 <= Len(s)
    /\ \A k \in 1..Len(lit) : Lower(s[i + k - 1]) = Lower(lit[k])

\* How many characters from position p on \s* can take.
RECURSIVE WsRun(_, _)
WsRun(s, p) ==
    IF p <= Len(s) /\ IsSpace(s[p]) THEN 1 + WsRun(s, p + 1) ELSE 0

NoMatch == [ok |-> FALSE, group |-> <<>>]

\* The match that starts at i: the first \s* is greedy (the longest run
\* first), (.*?) is lazy (the shortest group first, any character under
\* DOTALL), then \s* and the closing fence.
MatchAt(s, i) ==
    IF ~LitAt(s, i, Opening) THEN NoMatch
    ELSE LET p == i + Len(Opening)
             cands == {c \in (0..WsRun(s, p)) \X (p..(Len(s) + 1)) :
                          /\ c[2] >= p + c[1]
                          /\ \E w2 \in 0..WsRun(s, c[2]) :
                                LitAt(s, c[2] + w2, Fence)}
         IN  IF cands = {} THEN NoMatch
             ELSE LET best == CHOOSE c \in cands : \A d \in cands :
                                  \/ c[1] > d[1]
                                  \/ c[1] = d[1] /\ c[2] <= d[2]
                  IN  [ok |-> TRUE,
                       group |-> SubSeq(s, p + best[1], best[2] - 1)]

\* re.search: the match at the leftmost position that has one.
re_search(s) ==
    LET starts == {i \in 1..Len(s) : MatchAt(s, i).ok} IN
    IF starts = {} THEN NoMatch
    ELSE MatchAt(s, CHOOSE i \in starts : \A j \in starts : i <= j)

get_sql_query_from_question(text) ==
    LET query == re_search(text) IN
    IF query.ok THEN Strip(query.group) ELSE text

(***************************************************************************)
(* The texts sql_chain.invoke may return: every concatenation of at most   *)
(* MaxTokens of these pieces.                                              *)
(***************************************************************************)
Tokens == {Fence, <<"s", "q", "l">>, <<"S", "Q", "L">>, <<"\n">>, <<"x">>,
           <<Tick>>}

RECURSIVE Flatten(_)
Flatten(ts) == IF ts = <<>> THEN <<>> ELSE Head(ts) \o Flatten(Tail(ts))

Responses == {Flatten(ts) : ts \in SeqsUpTo(Tokens, MaxTokens)}

ExtractCall ==
    /\ ~e_done
    /\ e_out' = get_sql_query_from_question(e_resp)
    /\ e_done' = TRUE
    /\ UNCHANGED e_resp

(***************************************************************************)
(* The handler query() of POST /query, lines 105-133.                      *)
(***************************************************************************)
\* A request body: what request.get_json() makes of it, and the value
\* under 'question' when it is a JSON object ("<missing>": no such key,
\* "<null>": JSON null).
Bodies ==
    {[json |-> "object", question |-> q] :
        q \in {"<missing>", "<null>", "", "How many users?", "List the users"}}
    \cup {[json |-> j, question |-> "<missing>"] : j \in {"null", "array", "none"}}

\* bool(question) for the values above.
QuestionGiven(b) == b.question \notin {"<missing>", "<null>", ""}

\* str(e) of the exceptions the collaborators raise.
SchemaErrors == {"Can't connect to MySQL server", "Access denied"}
LLMErrors == {"429 Resource exhausted", "API key not valid"}
RunErrors == {"(1064) You have an error in your SQL syntax", "(1146) Table doesn't exist"}
JsonErrors == {"Object of type bytes is not JSON serializable"}
LenError == "object of type 'int' has no len()"
NoneGetError == "'NoneType' object has no attribute 'get'"
ListGetError == "'list' object has no attribute 'get'"
BadBodyErrors == {"415 Unsupported Media Type", "400 Bad Request"}

\* The texts the chain returns and the results db.run returns here.
Chars(ts) == Flatten(ts)

ChainTexts ==
    {Chars(<<Fence, <<"s", "q", "l">>, <<"\n">>, <<"x">>, <<"\n">>, Fence>>),
     Chars(<<<<"x">>, <<" ">>, Fence, <<"S", "Q", "L">>, <<" ">>, <<"x">>, Fence, <<"x">>>>),
     Chars(<<<<"x">>>>),
     Chars(<<<<" ">>, <<"x">>, <<"\n">>>>),
     Chars(<<Fence, <<"\n">>, <<"x">>, <<"\n">>, Fence>>)}

RunResults ==
    {StrV(<<>>),
     StrV(Repr(ListV(<<TupleV(<<IntV(1)>>)>>))),
     StrV(Repr(ListV(<<TupleV(<<IntV(1), StrV(<<"x">>)>>), TupleV(<<IntV(1), StrV(<<"x">>)>>)>>))),
     StrV(Repr(ListV(<<IntV(1)>>))),
     StrV(<<"x", " ", "x">>),
     ListV(<<TupleV(<<StrV(<<"x">>)>>), TupleV(<<StrV(<<"x">>)>>)>>)}

NoExc == [stage |-> "", msg |-> ""]

NoResponse ==
    [status |-> 0, success |-> "", error |-> "", sql_query |-> <<>>,
     results |-> Pending]

\* Line 112.
StatusBadRequest == 400
\* Line 133.
StatusError == 500
\* jsonify's default status, line 123.
StatusOk == 200

\* Line 112: jsonify({'error': 'Question is required'}), 400.
QuestionRequired ==
    [status |-> StatusBadRequest, success |-> "", error |-> "Question is required",
     sql_query |-> <<>>, results |-> Pending]

\* Lines 123-127: the success body.
SuccessResponse(q, pr) ==
    [status |-> StatusOk, success |-> "true", error |-> "", sql_query |-> q,
     results |-> pr]

\* ErrorResponse without the status: jsonify's default, 200.
ErrorResponse_NoStatus(msg) ==
    [status |-> StatusOk, success |-> "false", error |-> msg,
     sql_query |-> <<>>, results |-> Pending]

\* Lines 129-133: except Exception as e.
ErrorResponse(msg) ==
    [status |-> StatusError, success |-> "false", error |-> msg,
     sql_query |-> <<>>, results |-> Pending]

\* db.run given the chain's text as it came, not the extracted query.
execute_sql_query_arg_raw(text, q) == text

\* The query handed to db.run, line 118 and line 62.
execute_sql_query_arg(text, q) == q

\* An exception raised at `stage` reaches the except clause, which answers.
Throw(stage, msg) ==
    /\ raised' = [stage |-> stage, msg |-> msg]
    /\ response' = ErrorResponse(msg)
    /\ pc' = "done"

\* Lines 108-112: get_json, data.get and the test of the question.
Receive ==
    /\ pc = "start"
    /\ \/ /\ body.json = "object"
          /\ ~QuestionGiven(body)
          /\ response' = QuestionRequired
          /\ pc' = "done"
          /\ UNCHANGED raised
       \/ /\ body.json = "object"
          /\ QuestionGiven(body)
          /\ pc' = "schema"
          /\ UNCHANGED <<raised, response>>
       \/ /\ body.json = "null"
          /\ Throw("receive", NoneGetError)
       \/ /\ body.json = "array"
          /\ Throw("receive", ListGetError)
       \/ /\ body.json = "none"
          /\ \E m \in BadBodyErrors \cup {NoneGetError} : Throw("receive", m)
    /\ UNCHANGED <<body, trace, llm_text, sql_query, executed, results, parsed>>

\* Line 46, lines 39-43: the chain's first step, database.get_table_info().
SchemaFetch ==
    /\ pc = "schema"
    /\ trace' = Append(trace, "schema")
    /\ \/ /\ pc' = "llm"
          /\ UNCHANGED <<raised, response>>
       \/ \E m \in SchemaErrors : Throw("schema", m)
    /\ UNCHANGED <<body, llm_text, sql_query, executed, results, parsed>>

\* Lines 47-49: the prompt, the model call and the output parser.
LLMInvoke ==
    /\ pc = "llm"
    /\ trace' = Append(trace, "llm")
    /\ \/ /\ llm_text' \in ChainTexts
          /\ pc' = "extract"
          /\ UNCHANGED <<raised, response>>
       \/ /\ \E m \in LLMErrors : Throw("llm", m)
          /\ UNCHANGED llm_text
    /\ UNCHANGED <<body, sql_query, executed, results, parsed>>

\* Lines 55-58 and the assignment of line 115.
Extract ==
    /\ pc = "extract"
    /\ trace' = Append(trace, "extract")
    /\ sql_query' = get_sql_query_from_question(llm_text)
    /\ pc' = "execute"
    /\ UNCHANGED <<body, llm_text, executed, results, parsed, raised, response>>

\* Line 118, lines 60-63: db.run(sql_query).
Execute ==
    /\ pc = "execute"
    /\ trace' = Append(trace, "execute")
    /\ executed' = Append(executed, execute_sql_query_arg(llm_text, sql_query))
    /\ \/ /\ results' \in RunResults
          /\ pc' = "parse"
          /\ UNCHANGED <<raised, response>>
       \/ /\ \E m \in RunErrors : Throw("execute", m)
          /\ UNCHANGED results
    /\ UNCHANGED <<body, llm_text, sql_query, parsed>>

\* Line 121: parse_results(results).
Parse ==
    /\ pc = "parse"
    /\ trace' = Append(trace, "parse")
    /\ \/ /\ parse_results(results).exc = ""
          /\ parsed' = parse_results(results)
          /\ pc' = "respond"
          /\ UNCHANGED <<raised, response>>
       \/ /\ parse_results(results).exc # ""
          /\ Throw("parse", LenError)
          /\ UNCHANGED parsed
    /\ UNCHANGED <<body, llm_text, sql_query, executed, results>>

\* Lines 123-127: jsonify of the success body.
Respond ==
    /\ pc = "respond"
    /\ \/ /\ response' = SuccessResponse(sql_query, parsed)
          /\ pc' = "done"
          /\ UNCHANGED raised
       \/ \E m \in JsonErrors : Throw("respond", m)
    /\ UNCHANGED <<body, trace, llm_text, sql_query, executed, results, parsed>>

(***************************************************************************)
(* The specifications: of the handler, of parse_results on every raw       *)
(* result, of get_sql_query_from_question on every text.                   *)
(***************************************************************************)
HandlerVars ==
    <<pc, body, trace, llm_text, sql_query, executed, results, parsed,
      raised, response>>

ParseVars == <<p_src, p_raw, p_done, p_out>>

ExtractVars == <<e_resp, e_done, e_out>>

\* A request arrives; no call of the two functions alone is under way.
Init ==
    /\ pc = "start"
    /\ body \in Bodies
    /\ trace = <<>>
    /\ llm_text = <<>>
    /\ sql_query = <<>>
    /\ executed = <<>>
    /\ results = None
    /\ parsed = Pending
    /\ raised = NoExc
    /\ response = NoResponse
    /\ p_src = None /\ p_raw = None /\ p_done = TRUE /\ p_out = Pending
    /\ e_resp = <<>> /\ e_done = TRUE /\ e_out = <<>>

Next ==
    \/ Receive /\ UNCHANGED <<ParseVars, ExtractVars>>
    \/ SchemaFetch /\ UNCHANGED <<ParseVars, ExtractVars>>
    \/ LLMInvoke /\ UNCHANGED <<ParseVars, ExtractVars>>
    \/ Extract /\ UNCHANGED <<ParseVars, ExtractVars>>
    \/ Execute /\ UNCHANGED <<ParseVars, ExtractVars>>
    \/ Parse /\ UNCHANGED <<ParseVars, ExtractVars>>
    \/ Respond /\ UNCHANGED <<ParseVars, ExtractVars>>

Spec == Init /\ [][Next]_vars

ParseNext == ParseCall /\ UNCHANGED <<HandlerVars, ExtractVars>>

\* parse_results is called on a raw result; the handler is not running.
ParseInit ==
    /\ p_src \in Sources
    /\ p_raw \in Returned(p_src)
    /\ p_done = FALSE
    /\ p_out = Pending
    /\ pc = "idle"
    /\ body = [json |-> "none", question |-> "<missing>"]
    /\ trace = <<>>
    /\ llm_text = <<>>
    /\ sql_query = <<>>
    /\ executed = <<>>
    /\ results = None
    /\ parsed = Pending
    /\ raised = NoExc
    /\ response = NoResponse
    /\ e_resp = <<>> /\ e_done = TRUE /\ e_out = <<>>

ParseSpec == ParseInit /\ [][ParseNext]_vars

ExtractNext == ExtractCall /\ UNCHANGED <<HandlerVars, ParseVars>>

\* The extraction runs on a text of the chain; the handler is not running.
ExtractInit ==
    /\ e_resp \in Responses
    /\ e_done = FALSE
    /\ e_out = <<>>
    /\ pc = "idle"
    /\ body = [json |-> "none", question |-> "<missing>"]
    /\ trace = <<>>
    /\ llm_text = <<>>
    /\ sql_query = <<>>
    /\ executed = <<>>
    /\ results = None
    /\ parsed = Pending
    /\ raised = NoExc
    /\ response = NoResponse
    /\ p_src = None /\ p_raw = None /\ p_done = TRUE /\ p_out = Pending

ExtractSpec == ExtractInit /\ [][ExtractNext]_vars

(***************************************************************************)
(* What the claims speak of, stated apart from the code's operators.       *)
(***************************************************************************)
IsBlank(c) == c = " " \/ c = "\n"

\* s without its leading and trailing blanks.
Trim(s) ==
    LET inked == {i \in 1..Len(s) : ~IsBlank(s[i])} IN
    IF inked = {} THEN <<>>
    ELSE SubSeq(s, CHOOSE i \in inked : \A j \in inked : i <= j,
                   CHOOSE i \in inked : \A j \in inked : i >= j)

Width(row) == IF row.k = "str" THEN Len(row.s) ELSE Len(row.e)

\* A list of one row that has one column.
OneRowOneColumn(v) ==
    /\ v.k = "list"
    /\ Len(v.e) = 1
    /\ v.e[1].k \in {"tuple", "list", "str"}
    /\ Width(v.e[1]) = 1

TheValue(v) ==
    IF v.e[1].k = "str" THEN v.e[1] ELSE v.e[1].e[1]

ResultTypes == {"empty", "single", "list", "table", "text"}

FenceAt(r, j) ==
    j >= 1 /\ j + 2 <= Len(r) /\ r[j] = Tick /\ r[j + 1] = Tick /\ r[j + 2] = Tick

\* A fence followed at once by the letters s, q, l in either case.
SqlOpenAt(r, i) ==
    /\ FenceAt(r, i)
    /\ i + 5 <= Len(r)
    /\ r[i + 3] \in {"s", "S"} /\ r[i + 4] \in {"q", "Q"} /\ r[i + 5] \in {"l", "L"}

\* The blocks tagged sql: an opening at c[1], a closing fence at c[2].
SqlBlocks(r) ==
    UNION {{<<i, j>> : j \in {k \in (i + 6)..Len(r) : FenceAt(r, k)}} :
              i \in {k \in 1..Len(r) : SqlOpenAt(r, k)}}

FirstSqlBlock(r) ==
    LET bs == SqlBlocks(r) IN
    CHOOSE c \in bs : \A d \in bs : c[1] < d[1] \/ (c[1] = d[1] /\ c[2] <= d[2])

HasFence(r) == \E j \in 1..Len(r) : FenceAt(r, j)

\* A block with no language tag: the first fence is followed by a blank,
\* a later fence closes it, there is text between the two, and no fence of
\* the text is tagged sql.
UntaggedBlocks(r) ==
    {c \in (1..Len(r)) \X (1..Len(r)) :
        /\ FenceAt(r, c[1])
        /\ \A j \in 1..(c[1] - 1) : r[j] # Tick
        /\ c[1] + 3 <= Len(r) /\ IsBlank(r[c[1] + 3])
        /\ c[2] >= c[1] + 3 /\ FenceAt(r, c[2])
        /\ \A j \in (c[1] + 3)..(c[2] - 1) : ~FenceAt(r, j)
        /\ Trim(SubSeq(r, c[1] + 3, c[2] - 1)) # <<>>
        /\ \A j \in 1..Len(r) : ~SqlOpenAt(r, j)}

StageOrder == <<"schema", "llm", "extract", "execute", "parse">>

IsPrefix(a, b) == Len(a) <= Len(b) /\ a = SubSeq(b, 1, Len(a))

(***************************************************************************)
(* The claims.                                                             *)
(***************************************************************************)

\* C1: parse_results is total: whatever the raw result, it returns one
\* record whose type is empty, single, list, table or text, and raises
\* nothing.
C1_Total ==
    p_done => p_out.exc = "" /\ p_out.type \in ResultTypes

\* C2: a result of one row of one column, given as a list or as its text,
\* is answered with type single and that one value as data, never table.
C2_SingleValue ==
    p_done /\ OneRowOneColumn(p_src) => p_out = Ret("single", TheValue(p_src))

\* The text "[(1,)]", blanks around it or not, has been answered.
C2_Witness ==
    /\ p_done
    /\ p_src = ListV(<<TupleV(<<IntV(1)>>)>>)
    /\ p_raw.k = "str"
    /\ p_out.type = "single"

\* The case of C7: a non-empty text that, trimmed, is not bracketed or whose
\* literal parsing fails.
C7_Case ==
    /\ p_raw.k = "str"
    /\ p_raw.s # <<>>
    /\ LET t == Trim(p_raw.s) IN
       \/ ~(Len(t) > 0 /\ t[1] = "[" /\ t[Len(t)] = "]")
       \/ ~literal_eval(t).ok

\* C7 as stated: such a text (here one that is not blank) is answered with
\* type text and the raw text unchanged as data, its leading and trailing
\* blanks kept.
C7_RawUnchanged ==
    p_done /\ C7_Case /\ Trim(p_raw.s) # <<>> => p_out = Ret("text", p_raw)

\* C7 as amended: such a text is answered with type text and the text
\* without its leading and trailing blanks as data, and nothing is raised.
C7_TextTrimmed ==
    p_done /\ C7_Case => p_out = Ret("text", StrV(Trim(p_raw.s)))

\* A bracketed text that does not parse and has blanks around it has been
\* answered.
C7_Witness ==
    /\ p_done
    /\ C7_Case
    /\ Trim(p_raw.s) # p_raw.s
    /\ Trim(p_raw.s)[1] = "["
    /\ p_out.type = "text"

\* C8: a non-empty result that is not one row of one column, given as a
\* list or as its text, is answered with type table and the rows as data
\* when every row is a tuple, and with type list and the list otherwise.
C8_TableOrList ==
    p_done /\ p_src.k = "list" /\ Len(p_src.e) >= 1 /\ ~OneRowOneColumn(p_src)
    => p_out = IF \A i \in 1..Len(p_src.e) : p_src.e[i].k = "tuple"
               THEN Ret("table", p_src)
               ELSE Ret("list", p_src)

\* C3: of a text that holds a block tagged sql, in any letter case, the
\* extraction returns the interior of the first such block without its
\* leading and trailing blanks, and so no fence and none of the text around
\* the block.
C3_FenceInterior ==
    e_done /\ SqlBlocks(e_resp) # {}
    => LET b == FirstSqlBlock(e_resp) IN
       /\ e_out = Trim(SubSeq(e_resp, b[1] + 6, b[2] - 1))
       /\ ~HasFence(e_out)

\* A block tagged SQL with text before it, text in it and text after it
\* has been extracted.
C3_Witness ==
    /\ e_done
    /\ SqlBlocks(e_resp) # {}
    /\ LET b == FirstSqlBlock(e_resp) IN
       /\ b[1] > 1
       /\ b[2] + 2 < Len(e_resp)
       /\ e_resp[b[1] + 3] = "S"
    /\ e_out # <<>>

\* C4: of a text that holds no fence (and is not blank), the extraction
\* returns the whole text without its leading and trailing blanks.
C4_NoFenceTrimmed ==
    e_done /\ ~HasFence(e_resp) /\ Trim(e_resp) # <<>>
    => e_out = Trim(e_resp)

\* C10: of a text whose block has no language tag, the extraction returns
\* the block's interior without its leading and trailing blanks, and no
\* fence.
C10_UntaggedFence ==
    e_done /\ UntaggedBlocks(e_resp) # {}
    => \A b \in UntaggedBlocks(e_resp) :
          /\ e_out = Trim(SubSeq(e_resp, b[1] + 3, b[2] - 1))
          /\ ~HasFence(e_out)

\* C5: a request whose question is missing or empty (no such key, an empty
\* string, or no JSON object at all) is answered 400, "Question is
\* required", and no stage of the pipeline is invoked.
C5_QuestionRequired ==
    pc = "done" /\ (body.json # "object" \/ ~QuestionGiven(body))
    => /\ response.status = 400
       /\ response.error = "Question is required"
       /\ trace = <<>>

\* C6: with a question given, an exception raised in a stage of the
\* pipeline ends the request with status 500, success false and the
\* exception's message as error; never with 200, and never unanswered.
C6_ExceptionGives500 ==
    /\ raised # NoExc => pc = "done"
    /\ pc = "done" /\ QuestionGiven(body) /\ raised # NoExc
       => /\ response.status = 500
          /\ response.success = "false"
          /\ response.error = raised.msg
    /\ response.status = 200 => raised = NoExc

\* parse_results raised on the result of the query, and the request ended.
C6_Witness ==
    pc = "done" /\ QuestionGiven(body) /\ raised.stage = "parse"

\* C9: the stages of a request run in the order schema, llm, extract,
\* execute, parse, each at most once; a stage that raised is the last one;
\* db.run is given the string the extraction returned; and a 200 response
\* reports that string as sql_query after all five stages.
C9_StagesInOrder ==
    /\ IsPrefix(trace, StageOrder)
    /\ Len(executed) <= 1
    /\ executed # <<>> =>
          /\ executed[1] = sql_query
          /\ \E i \in 1..Len(trace) : trace[i] = "extract"
    /\ raised.stage \in {"schema", "llm", "execute", "parse"} =>
          pc = "done" /\ trace[Len(trace)] = raised.stage
    /\ response.status = 200 =>
          /\ trace = StageOrder
          /\ response.sql_query = executed[1]

\* A request answered 200 whose query is not the chain's text as it came.
C9_Witness ==
    response.status = 200 /\ response.sql_query # llm_text

====
